---- MODULE Spec2Model ----
(***************************************************************************)
(* A model of gmsf-to-midi (src/src/main.rs): the driver loop of main and  *)
(* convert_gmsf_to_midi, which decodes a GMSF grid from a byte stream,     *)
(* resolves the repeat markers, walks every channel's piano-roll into a    *)
(* MIDI track buffer and writes the Standard MIDI File.  Bytes are         *)
(* integers 0..255, files are sequences of bytes, and a u32 that is        *)
(* shifted is kept as its four bytes, least significant first.             *)
(***************************************************************************)
EXTENDS Integers, Sequences, FiniteSets, TLC

VARIABLES args, fi, pc, results, outfiles, consumed,
          read_bpm, read_width, song_data, hash_order, repeat_ends,
          total_tracks, track_buffers, ti,
          channel_id, track_buffer, current_delta, last_delta, last_keys, x,
          visits, walks, vlq_in, vlq_out

vars == <<args, fi, pc, results, outfiles, consumed,
          read_bpm, read_width, song_data, hash_order, repeat_ends,
          total_tracks, track_buffers, ti,
          channel_id, track_buffer, current_delta, last_delta, last_keys, x,
          visits, walks, vlq_in, vlq_out>>

(***************************************************************************)
(* Bounds of the model.                                                    *)
(***************************************************************************)
MaxWidth == 3
MaxHeight == 2
MaxMarks == 2
MaxFiles == 2
MaxVisits == 40
VlqSpread == 2

(***************************************************************************)
(* Program constants.                                                      *)
(***************************************************************************)
GMSF_KEY_LOOKUP == <<71, 69, 67, 65, 64, 62, 60, 59, 57, 55, 53, 52, 50, 48>>

GMSF_DRUMS_LOOKUP == <<36, 39, 59, 38, 43, 45, 49, 36, 39, 59, 38, 43, 45, 49>>

DELTATIME == 96

DELTATIME_PER_BLOCK == DELTATIME \div 4

(***************************************************************************)
(* Bit operations on bytes.                                                *)
(***************************************************************************)
RECURSIVE BitOr(_, _)
BitOr(a, b) ==
    IF a = 0 THEN b
    ELSE IF b = 0 THEN a
    ELSE 2 * BitOr(a \div 2, b \div 2) + (IF a % 2 = 1 \/ b % 2 = 1 THEN 1 ELSE 0)

RECURSIVE BitAnd(_, _)
BitAnd(a, b) ==
    IF a = 0 \/ b = 0 THEN 0
    ELSE 2 * BitAnd(a \div 2, b \div 2) + (IF a % 2 = 1 /\ b % 2 = 1 THEN 1 ELSE 0)

\* u32 as four bytes, least significant first
U32Shl8(buf) == <<0, buf[1], buf[2], buf[3]>>

U32Shr8(buf) == <<buf[2], buf[3], buf[4], 0>>

\* buf += d for a u32 buf and a small d, wrapping at 2^32
U32Add(buf, d) ==
    LET s1 == buf[1] + d
        s2 == buf[2] + s1 \div 256
        s3 == buf[3] + s2 \div 256
        s4 == buf[4] + s3 \div 256
    IN  <<s1 % 256, s2 % 256, s3 % 256, s4 % 256>>

(***************************************************************************)
(* var_len_from: the first loop packs the base-128 digits into buf, the    *)
(* second unpacks buf one byte at a time while bit 7 is set.               *)
(***************************************************************************)
\* a packing that leaves the continuation flag out: what C7 must tell from
\* VlqPack
RECURSIVE VlqPackUnflagged(_, _)
VlqPackUnflagged(buf, value) ==
    IF value > 0
    THEN VlqPackUnflagged(U32Add(U32Shl8(buf), value % 128), value \div 128)
    ELSE buf

RECURSIVE VlqPack(_, _)
VlqPack(buf, value) ==
    IF value > 0
    THEN LET shifted == U32Shl8(buf)
             flagged == <<BitOr(shifted[1], 128), shifted[2], shifted[3], shifted[4]>>
         IN  VlqPack(U32Add(flagged, value % 128), value \div 128)
    ELSE buf

RECURSIVE VlqUnpack(_)
VlqUnpack(buf) ==
    IF BitAnd(buf[1], 128) # 0
    THEN <<buf[1]>> \o VlqUnpack(U32Shr8(buf))
    ELSE <<buf[1]>>

var_len_from(value) == VlqUnpack(VlqPack(<<value % 128, 0, 0, 0>>, value \div 128))

(***************************************************************************)
(* The event encoders (MidiEventType::as_vec, MidiMetaEventType::as_vec).  *)
(***************************************************************************)
NoteOff(key, delta, channel) == var_len_from(delta) \o <<BitOr(128, channel), key, 0>>

NoteOn(key, delta, channel) == var_len_from(delta) \o <<BitOr(144, channel), key, 64>>

ProgramChange(patch, delta, channel) == var_len_from(delta) \o <<BitOr(192, channel), patch>>

TrackName(name, delta) == var_len_from(delta) \o <<255, 3, Len(name) % 256>> \o name

EndOfTrack(delta) == var_len_from(delta) \o <<255, 47, 0>>

\* read_bpm is the i16 of the header cast to u32: a negative i16 becomes
\* 2^32 + bpm, which is above 60,000,000, so the quotient is 0.  The caller
\* of SetTempo handles bpm = 0 (the division panics).
TempoMicros(bpm) == IF bpm < 0 THEN 0 ELSE 60000000 \div bpm

SetTempo(bpm, delta) ==
    LET q == TempoMicros(bpm)
    IN  var_len_from(delta) \o <<255, 81, 3>>
          \o <<(q \div 65536) % 256, (q \div 256) % 256, q % 256>>

BE16(n) == <<(n \div 256) % 256, n % 256>>

BE32(n) == <<(n \div 16777216) % 256, (n \div 65536) % 256, (n \div 256) % 256, n % 256>>

(***************************************************************************)
(* The configuration (struct Config), fixed for the model: one symbol of   *)
(* every GMSFSheetType, a channel above 15 and a channel without a         *)
(* TrackInfo.                                                              *)
(***************************************************************************)
Sheet(t, c, a) == [type |-> t, channel |-> c, accidental |-> a]

gmsf_sheet_map ==
    (1 :> Sheet("Note", 0, "Natural")) @@ (2 :> Sheet("LowNote", 1, "Sharp"))
    @@ (3 :> Sheet("RepeatBegin", 0, "Natural")) @@ (4 :> Sheet("RepeatEnd", 0, "Natural"))
    @@ (5 :> Sheet("Note", 16, "Flat")) @@ (6 :> Sheet("Note", 2, "Natural"))
    @@ (7 :> Sheet("Drums", 0, "Natural")) @@ (8 :> Sheet("Other", 0, "Natural"))

midi_track_map ==
    (0 :> [patch |-> 0, name |-> <<80>>]) @@ (1 :> [patch |-> 33, name |-> <<66>>])
    @@ (9 :> [patch |-> 0, name |-> <<68>>]) @@ (16 :> [patch |-> 5, name |-> <<88>>])

(***************************************************************************)
(* channel_and_key_from_gmsf_sheet.  Indexing a lookup table with y >= 14  *)
(* panics.                                                                 *)
(***************************************************************************)
NoKey == [some |-> FALSE, panic |-> FALSE, channel |-> 0, key |-> 0]

Adjust(key, accidental) ==
    IF accidental = "Flat" THEN key - 1
    ELSE IF accidental = "Sharp" THEN key + 1
    ELSE key

channel_and_key_from_gmsf_sheet(sheet, y) ==
    IF sheet.type \in {"Note", "LowNote", "Drums"} /\ y >= 14
    THEN [NoKey EXCEPT !.panic = TRUE]
    ELSE IF sheet.type = "Note"
    THEN [some |-> TRUE, panic |-> FALSE, channel |-> sheet.channel,
          key |-> Adjust(GMSF_KEY_LOOKUP[y + 1], sheet.accidental)]
    ELSE IF sheet.type = "LowNote"
    THEN [some |-> TRUE, panic |-> FALSE, channel |-> sheet.channel,
          key |-> Adjust(GMSF_KEY_LOOKUP[y + 1] - 24, sheet.accidental)]
    ELSE IF sheet.type = "Drums"
    THEN [some |-> TRUE, panic |-> FALSE, channel |-> 9, key |-> GMSF_DRUMS_LOOKUP[y + 1]]
    ELSE NoKey

(***************************************************************************)
(* The input stream.  Read::read copies the bytes that are available, at   *)
(* most Len(buf), into the front of buf and returns how many: the rest of  *)
(* buf keeps what it held, and no read is an error at the end of the file. *)
(* The code discards the count.                                            *)
(***************************************************************************)
Min(a, b) == IF a < b THEN a ELSE b

ReadInto(bytes, pos, buf) ==
    LET avail == IF Len(bytes) > pos THEN Len(bytes) - pos ELSE 0
        k == Min(Len(buf), avail)
    IN  [buf |-> [i \in 1..Len(buf) |-> IF i <= k THEN bytes[pos + i] ELSE buf[i]],
         pos |-> pos + k]

I16(buf) ==
    LET u == buf[1] + 256 * buf[2]
    IN  IF u >= 32768 THEN u - 65536 ELSE u

MAGIC == <<71, 77, 83, 70>>

(***************************************************************************)
(* The grid decoder: the body of the loops over y and x.  d is the         *)
(* decoder's state: the stream position, buf8, song_data, the raw          *)
(* repeat_ends, the row's repeat_begin_pos and whether an index panicked.  *)
(***************************************************************************)
InsertKey(song, width, channel, col, key) ==
    IF channel \in DOMAIN song
    THEN [song EXCEPT ![channel][col + 1] = @ \cup {key}]
    ELSE song @@ (channel :> [i \in 1..width |-> IF i = col + 1 THEN {key} ELSE {}])

RepeatEnd(s, u, m) == [start_pos |-> s, use_counter |-> u, max_use |-> m]

\* one (inner_id, inner_y) pair of an audiogear cell
AudiogearPair(bytes, d, width, col) ==
    LET r1 == ReadInto(bytes, d.pos, d.buf8)
        inner_id == r1.buf[1]
        r2 == ReadInto(bytes, r1.pos, r1.buf)
        inner_y == r2.buf[1]
        d2 == [d EXCEPT !.pos = r2.pos, !.buf8 = r2.buf]
        ck == IF inner_id # 0 /\ inner_id \in DOMAIN gmsf_sheet_map
              THEN channel_and_key_from_gmsf_sheet(gmsf_sheet_map[inner_id], inner_y)
              ELSE NoKey
    IN  IF ck.panic THEN [d2 EXCEPT !.panic = TRUE]
        ELSE IF ck.some
        THEN [d2 EXCEPT !.song = InsertKey(d2.song, width, ck.channel, col, ck.key)]
        ELSE d2

\* the loop over the 5 pairs; dv is the decoder's state after the pairs
\* before, as a value
RECURSIVE AudiogearPairs(_, _, _, _, _)
AudiogearPairs(bytes, d, width, col, n) ==
    CHOOSE out \in {IF n = 0 \/ dv.panic THEN dv
                    ELSE AudiogearPairs(bytes, AudiogearPair(bytes, dv, width, col),
                                        width, col, n - 1) : dv \in {d}} : TRUE

DecodeCell(bytes, d, width, col, row, audiogear_id) ==
    LET r == ReadInto(bytes, d.pos, d.buf8)
        read_id == r.buf[1]
        d1 == [d EXCEPT !.pos = r.pos, !.buf8 = r.buf,
                        !.begins = IF col = 0 THEN <<>> ELSE @]
    IN  IF read_id = 0 THEN d1
        ELSE IF read_id = audiogear_id
        THEN CHOOSE out \in {IF da.panic THEN da ELSE [da EXCEPT !.pos = @ + 1] :
                                 da \in {AudiogearPairs(bytes, d1, width, col, 5)}} : TRUE
        ELSE IF read_id \in DOMAIN gmsf_sheet_map
        THEN LET sheet == gmsf_sheet_map[read_id]
                 ck == channel_and_key_from_gmsf_sheet(sheet, row)
             IN  IF ck.panic THEN [d1 EXCEPT !.panic = TRUE]
                 ELSE LET d2 == IF ck.some
                                THEN [d1 EXCEPT !.song =
                                         InsertKey(d1.song, width, ck.channel, col, ck.key)]
                                ELSE d1
                      IN  IF sheet.type = "RepeatBegin"
                          THEN [d2 EXCEPT !.begins = Append(@, col)]
                          ELSE IF sheet.type = "RepeatEnd"
                          THEN LET last_begin == IF d2.begins # <<>>
                                                 THEN d2.begins[Len(d2.begins)] ELSE 0
                               IN  [d2 EXCEPT !.reps[col + 1] =
                                       Append(@, RepeatEnd(last_begin, 0, 1))]
                          ELSE d2
        ELSE d1

\* the loops over y and x, row-major; dv is the decoder's state after the
\* cells before, as a value
RECURSIVE DecodeCells(_, _, _, _, _, _)
DecodeCells(bytes, d, k, width, height, audiogear_id) ==
    CHOOSE out \in {IF k >= width * height \/ dv.panic THEN dv
                    ELSE DecodeCells(bytes,
                                     DecodeCell(bytes, dv, width, k % width, k \div width,
                                                audiogear_id),
                                     k + 1, width, height, audiogear_id) : dv \in {d}} : TRUE

(***************************************************************************)
(* The repeat resolver: each column's markers sorted (the derived Ord of   *)
(* RepeatEnd compares start_pos first, and the raw markers agree on the    *)
(* other fields), then runs of one start_pos collapsed into one action.    *)
(***************************************************************************)
RECURSIVE InsertSorted(_, _)
InsertSorted(sorted, e) ==
    IF sorted = <<>> THEN <<e>>
    ELSE IF e.start_pos < sorted[1].start_pos THEN <<e>> \o sorted
    ELSE <<sorted[1]>> \o InsertSorted(Tail(sorted), e)

RECURSIVE SortMarkers(_)
SortMarkers(v) ==
    IF v = <<>> THEN <<>>
    ELSE InsertSorted(SortMarkers(SubSeq(v, 1, Len(v) - 1)), v[Len(v)])

\* a collapse that drops the markers it merges without counting them: what
\* C1 must tell from Combine
RECURSIVE CombineUncounted(_, _, _)
CombineUncounted(v, i, combined) ==
    IF i > Len(v) THEN combined
    ELSE IF i > 1 /\ v[i].start_pos = v[i - 1].start_pos
    THEN CombineUncounted(v, i + 1, combined)
    ELSE CombineUncounted(v, i + 1, Append(combined, RepeatEnd(v[i].start_pos, 0, 1)))

RECURSIVE Combine(_, _, _)
Combine(v, i, combined) ==
    IF i > Len(v) THEN combined
    ELSE IF i > 1 /\ v[i].start_pos = v[i - 1].start_pos
    THEN Combine(v, i + 1,
                 IF combined # <<>>
                 THEN [combined EXCEPT ![Len(combined)].max_use = @ + 1]
                 ELSE combined)
    ELSE Combine(v, i + 1, Append(combined, RepeatEnd(v[i].start_pos, 0, 1)))

ResolveColumn(v) == Combine(SortMarkers(v), 1, <<>>)

ResolveRepeats(reps) == [c \in 1..Len(reps) |-> ResolveColumn(reps[c])]

(***************************************************************************)
(* convert_gmsf_to_midi up to the resolved repeat table: the magic, the    *)
(* header fields, the grid, the resolver.  The outcome is "err" (the       *)
(* function returns Err), "panic" (an index out of bounds, or the          *)
(* allocation of a table of a negative width cast to usize), "hang" (a     *)
(* negative height cast to usize: a loop of about 2^64 rows) or "ok".      *)
(***************************************************************************)
NoDecode(outcome, pos) ==
    [outcome |-> outcome, pos |-> pos, bpm |-> 0, width |-> 0, song |-> <<>>,
     reps |-> <<>>]

\* The reads of lines 179-199 in order, by the buffer each one fills:
\* the magic, the version, the audiogear id, the tempo, the width, the
\* height.  vals[i] is the buffer as the i-th read left it.
HeaderReads == <<"read_header", "buf8", "buf8", "buf16", "buf16", "buf16">>

Reader0 ==
    [pos |-> 0,
     bufs |-> [read_header |-> <<0, 0, 0, 0>>, buf8 |-> <<0>>, buf16 |-> <<0, 0>>],
     vals |-> <<>>]

ReadField(bytes, st, name) ==
    LET r == ReadInto(bytes, st.pos, st.bufs[name])
    IN  [pos |-> r.pos, bufs |-> [st.bufs EXCEPT ![name] = r.buf],
         vals |-> Append(st.vals, r.buf)]

RECURSIVE ReadFields(_, _, _)
ReadFields(bytes, st, i) ==
    CHOOSE out \in {IF i > Len(HeaderReads) THEN sv
                    ELSE ReadFields(bytes, ReadField(bytes, sv, HeaderReads[i]), i + 1) :
                    sv \in {st}} : TRUE

DecodeGrid(bytes, pos, buf8, audiogear_id, bpm, width, height) ==
    LET d0 == [pos |-> pos, buf8 |-> buf8, song |-> <<>>,
               reps |-> [c \in 1..width |-> <<>>], begins |-> <<>>, panic |-> FALSE]
    IN  CHOOSE out \in {IF d.panic THEN NoDecode("panic", d.pos)
                        ELSE [outcome |-> "ok", pos |-> d.pos, bpm |-> bpm, width |-> width,
                              song |-> d.song, reps |-> ResolveRepeats(d.reps)] :
                        d \in {DecodeCells(bytes, d0, 0, width, height, audiogear_id)}} : TRUE

\* a decoder that does not look at the magic: what C4 must tell from
\* DecodeFields
DecodeFieldsAnyMagic(bytes, hd) ==
    IF I16(hd.vals[5]) < 0 THEN NoDecode("panic", hd.pos)
    ELSE IF I16(hd.vals[6]) < 0 THEN NoDecode("hang", hd.pos)
    ELSE DecodeGrid(bytes, hd.pos, hd.bufs.buf8, hd.vals[3][1], I16(hd.vals[4]),
                    I16(hd.vals[5]), I16(hd.vals[6]))

DecodeFields(bytes, hd) ==
    IF hd.vals[1] # MAGIC THEN NoDecode("err", Min(4, Len(bytes)))
    ELSE IF I16(hd.vals[5]) < 0 THEN NoDecode("panic", hd.pos)
    ELSE IF I16(hd.vals[6]) < 0 THEN NoDecode("hang", hd.pos)
    ELSE DecodeGrid(bytes, hd.pos, hd.bufs.buf8, hd.vals[3][1], I16(hd.vals[4]),
                    I16(hd.vals[5]), I16(hd.vals[6]))

DecodeFile(bytes) ==
    CHOOSE out \in {DecodeFields(bytes, hd) : hd \in {ReadFields(bytes, Reader0, 1)}} : TRUE

(***************************************************************************)
(* Orders.  song_data is sorted by channel before the tracks are built.    *)
(* A HashSet iterates in the order of its hasher, whose keys are drawn     *)
(* anew for every HashSet::new(): the order of a channel's pitches is one  *)
(* of the permutations, fixed for the conversion when the table is built.  *)
(* Where no column holds two pitches the order cannot show.                *)
(***************************************************************************)
RECURSIVE SortedSeq(_)
SortedSeq(S) ==
    IF S = {} THEN <<>>
    ELSE LET m == CHOOSE a \in S : \A b \in S : a <= b
         IN  <<m>> \o SortedSeq(S \ {m})

Perms(S) ==
    {f \in [1..Cardinality(S) -> S] : \A i, j \in 1..Cardinality(S) : i # j => f[i] # f[j]}

Pitches(track) == UNION {track[c] : c \in 1..Len(track)}

IterationOrders(track) ==
    IF \E c \in 1..Len(track) : Cardinality(track[c]) >= 2
    THEN Perms(Pitches(track))
    ELSE {SortedSeq(Pitches(track))}

HashOrders(song) ==
    {ho \in [DOMAIN song -> UNION {IterationOrders(song[ch]) : ch \in DOMAIN song}] :
        \A ch \in DOMAIN song : ho[ch] \in IterationOrders(song[ch])}

IterKeys(order, keys) == SelectSeq(order, LAMBDA k : k \in keys)

(***************************************************************************)
(* The pieces of one iteration of the sequencer's while loop.              *)
(***************************************************************************)
\* the NoteOff loop (noteon = FALSE) and the NoteOn loop (noteon = TRUE)
RECURSIVE EmitKeys(_, _, _, _, _, _, _)
EmitKeys(noteon, keys, i, buffer, cur, last, channel) ==
    IF i > Len(keys) THEN [buffer |-> buffer, last |-> last]
    ELSE EmitKeys(noteon, keys, i + 1,
                  buffer \o (IF noteon THEN NoteOn(keys[i], cur - last, channel)
                                       ELSE NoteOff(keys[i], cur - last, channel)),
                  cur, cur, channel)

\* the loop over repeat_ends[x]: exhausted actions are reset and passed,
\* the first other one is used and ends the loop
\* an evaluation that passes an exhausted action without resetting it: what
\* C10 must tell from EvalRepeats
RECURSIVE EvalRepeatsNoReset(_, _)
EvalRepeatsNoReset(list, i) ==
    IF i > Len(list) THEN [list |-> list, repeating |-> FALSE, start |-> 0]
    ELSE IF list[i].use_counter >= list[i].max_use
    THEN EvalRepeatsNoReset(list, i + 1)
    ELSE [list |-> [list EXCEPT ![i].use_counter = @ + 1], repeating |-> TRUE,
          start |-> list[i].start_pos]

\* an evaluation that resets an exhausted action and fires it at once: what
\* C8 must tell from EvalRepeats
RECURSIVE EvalRepeatsRefire(_, _)
EvalRepeatsRefire(list, i) ==
    IF i > Len(list) THEN [list |-> list, repeating |-> FALSE, start |-> 0]
    ELSE [list |-> [list EXCEPT ![i].use_counter =
                        IF @ >= list[i].max_use THEN 1 ELSE @ + 1],
          repeating |-> TRUE, start |-> list[i].start_pos]

RECURSIVE EvalRepeats(_, _)
EvalRepeats(list, i) ==
    IF i > Len(list) THEN [list |-> list, repeating |-> FALSE, start |-> 0]
    ELSE IF list[i].use_counter >= list[i].max_use
    THEN EvalRepeats([list EXCEPT ![i].use_counter = 0], i + 1)
    ELSE [list |-> [list EXCEPT ![i].use_counter = @ + 1], repeating |-> TRUE,
          start |-> list[i].start_pos]

(***************************************************************************)
(* The file writer: MThd, the tempo track, one MTrk per track buffer.      *)
(***************************************************************************)
MThd(ntracks) == <<77, 84, 104, 100>> \o BE32(6) \o BE16(1) \o BE16(ntracks) \o BE16(DELTATIME)

MTrk(buffer) == <<77, 84, 114, 107>> \o BE32(Len(buffer)) \o buffer

RECURSIVE Chunks(_, _)
Chunks(buffers, i) ==
    IF i > Len(buffers) THEN <<>> ELSE MTrk(buffers[i]) \o Chunks(buffers, i + 1)

MidiFile(ntracks, bpm, buffers) ==
    MThd(ntracks) \o MTrk(SetTempo(bpm, 0) \o EndOfTrack(0)) \o Chunks(buffers, 1)

(***************************************************************************)
(* The state machine: main's loop over the arguments and the positions of  *)
(* convert_gmsf_to_midi.  pc is "convert" (main is about to call it for    *)
(* args[fi]), "track" (at the head of the loop over song_data), "walk"     *)
(* (at the head of the while loop), "exit" (main returned), "crashed" (a   *)
(* panic ended the process) or "hang".  outfiles[i] is <<>> while the      *)
(* i-th conversion has created no file, and <<bytes>> once it has;         *)
(* consumed[i] is the position it left the input stream at.                *)
(* visits and walks record the columns the current walk has visited and    *)
(* the visits of the walks finished for the current file.                  *)
(***************************************************************************)
Channels == SortedSeq(DOMAIN song_data)

Locals0 ==
    /\ read_bpm = 0 /\ read_width = 0 /\ song_data = <<>> /\ hash_order = <<>>
    /\ repeat_ends = <<>> /\ total_tracks = 1 /\ track_buffers = <<>> /\ ti = 1

Walk0 ==
    /\ channel_id = 0 /\ track_buffer = <<>> /\ current_delta = 0
    /\ last_delta = 0 /\ last_keys = <<>> /\ x = 0 /\ visits = <<>>

\* the locals go out of scope
ResetLocals ==
    /\ read_bpm' = 0 /\ read_width' = 0 /\ song_data' = <<>> /\ hash_order' = <<>>
    /\ repeat_ends' = <<>> /\ total_tracks' = 1 /\ track_buffers' = <<>> /\ ti' = 1

ResetWalk ==
    /\ channel_id' = 0 /\ track_buffer' = <<>> /\ current_delta' = 0
    /\ last_delta' = 0 /\ last_keys' = <<>> /\ x' = 0 /\ visits' = <<>>

localVars == <<read_bpm, read_width, song_data, hash_order, repeat_ends,
               total_tracks, track_buffers, ti>>

walkVars == <<channel_id, track_buffer, current_delta, last_delta, last_keys, x, visits>>

vlqVars == <<vlq_in, vlq_out>>

InitRest ==
    /\ fi = 1
    /\ pc = IF args = <<>> THEN "exit" ELSE "convert"
    /\ results = [i \in 1..Len(args) |-> "none"]
    /\ outfiles = [i \in 1..Len(args) |-> <<>>]
    /\ consumed = [i \in 1..Len(args) |-> 0]
    /\ Locals0 /\ Walk0 /\ walks = <<>>
    /\ vlq_in = 0 /\ vlq_out = <<>>

(***************************************************************************)
(* var_len_from on its own: vlq_out is <<>> until the value is encoded.    *)
(***************************************************************************)
VlqDigits == (0..VlqSpread) \cup ((127 - VlqSpread)..127)

VlqInputs ==
    {((d[4] * 128 + d[3]) * 128 + d[2]) * 128 + d[1] : d \in [1..4 -> VlqDigits]}

InitVlq ==
    /\ args = <<>> /\ fi = 1 /\ pc = "exit"
    /\ results = <<>> /\ outfiles = <<>> /\ consumed = <<>>
    /\ Locals0 /\ Walk0 /\ walks = <<>>
    /\ vlq_in \in VlqInputs /\ vlq_out = <<>>

Encode ==
    /\ vlq_out = <<>>
    /\ vlq_out' = var_len_from(vlq_in)
    /\ UNCHANGED <<args, fi, pc, results, outfiles, consumed, localVars, walkVars, walks,
                   vlq_in>>

SpecVlq == InitVlq /\ [][Encode]_vars

\* the call returns to main, which goes on with the next argument
NextFile ==
    /\ fi' = fi + 1
    /\ pc' = IF fi + 1 > Len(args) THEN "exit" ELSE "convert"
    /\ ResetLocals /\ ResetWalk /\ walks' = <<>>

\* lines 176-277
Convert ==
    /\ pc = "convert"
    /\ \E r \in {DecodeFile(args[fi])} :
           IF r.outcome = "ok"
           THEN /\ read_bpm' = r.bpm
                /\ read_width' = r.width
                /\ song_data' = r.song
                /\ hash_order' \in HashOrders(r.song)
                /\ repeat_ends' = r.reps
                /\ total_tracks' = 1
                /\ track_buffers' = <<>>
                /\ ti' = 1
                /\ pc' = "track"
                /\ UNCHANGED <<fi, results, walkVars, walks>>
           ELSE IF r.outcome = "err"
           THEN /\ results' = [results EXCEPT ![fi] = "err"]
                /\ NextFile
           ELSE /\ results' = [results EXCEPT ![fi] = r.outcome]
                /\ pc' = IF r.outcome = "panic" THEN "crashed" ELSE "hang"
                /\ UNCHANGED <<fi, localVars, walkVars, walks>>
    /\ consumed' = [consumed EXCEPT ![fi] = DecodeFile(args[fi]).pos]
    /\ UNCHANGED <<args, outfiles, vlqVars>>

\* lines 279-303: the next channel of song_data, skipped or begun
BeginTrack ==
    /\ pc = "track"
    /\ ti <= Len(Channels)
    /\ LET instrument == Channels[ti]
       IN  IF instrument \in DOMAIN midi_track_map /\ ~(instrument > 15)
           THEN /\ channel_id' = instrument
                /\ total_tracks' = total_tracks + 1
                /\ track_buffer' = TrackName(midi_track_map[instrument].name, 0)
                                     \o ProgramChange(midi_track_map[instrument].patch, 0,
                                                      instrument)
                /\ current_delta' = 0
                /\ last_delta' = 0
                /\ last_keys' = <<>>
                /\ x' = 0
                /\ visits' = <<>>
                /\ pc' = "walk"
                /\ UNCHANGED ti
           ELSE /\ ti' = ti + 1
                /\ UNCHANGED <<pc, total_tracks, walkVars>>
    /\ UNCHANGED <<args, fi, results, outfiles, consumed, read_bpm, read_width, song_data,
                   hash_order, repeat_ends, track_buffers, walks, vlqVars>>

\* lines 305-331: one iteration of the while loop (the model follows a walk
\* for MaxVisits iterations)
WalkStep ==
    /\ pc = "walk"
    /\ x < read_width
    /\ Len(visits) < MaxVisits
    /\ \E keys \in {IterKeys(hash_order[Channels[ti]], song_data[Channels[ti]][x + 1])} :
       \E offs \in {EmitKeys(FALSE, last_keys, 1, track_buffer, current_delta, last_delta,
                             channel_id)} :
       \E ons \in {EmitKeys(TRUE, keys, 1, offs.buffer, current_delta, offs.last,
                            channel_id)} :
       \E rep \in {EvalRepeats(repeat_ends[x + 1], 1)} :
           /\ track_buffer' = ons.buffer
           /\ last_delta' = ons.last
           /\ last_keys' = keys
           /\ current_delta' = current_delta + DELTATIME_PER_BLOCK
           /\ repeat_ends' = [repeat_ends EXCEPT ![x + 1] = rep.list]
           /\ x' = IF rep.repeating THEN rep.start ELSE x + 1
           /\ visits' = Append(visits, x)
    /\ UNCHANGED <<args, fi, pc, results, outfiles, consumed, read_bpm, read_width, song_data,
                   hash_order, total_tracks, track_buffers, ti, channel_id, walks, vlqVars>>

\* lines 332-333
EndTrack ==
    /\ pc = "walk"
    /\ ~(x < read_width)
    /\ track_buffers' = Append(track_buffers, track_buffer \o EndOfTrack(0))
    /\ walks' = Append(walks, visits)
    /\ ti' = ti + 1
    /\ pc' = "track"
    /\ ResetWalk
    /\ UNCHANGED <<args, fi, results, outfiles, consumed, read_bpm, read_width, song_data,
                   hash_order, repeat_ends, total_tracks, vlqVars>>

\* lines 337-363.  The file is created and MThd is in the BufWriter when
\* SetTempo divides by read_bpm: on a panic the file is left empty (the
\* process aborts) or the unwinding drops the BufWriter, which flushes MThd.
Export ==
    /\ pc = "track"
    /\ ~(ti <= Len(Channels))
    /\ IF read_bpm = 0
       THEN /\ \E left \in {<<>>, MThd(total_tracks)} :
                  outfiles' = [outfiles EXCEPT ![fi] = <<left>>]
            /\ results' = [results EXCEPT ![fi] = "panic"]
            /\ pc' = "crashed"
            /\ UNCHANGED <<fi, localVars, walkVars, walks>>
       ELSE /\ outfiles' = [outfiles EXCEPT ![fi] =
                               <<MidiFile(total_tracks, read_bpm, track_buffers)>>]
            /\ results' = [results EXCEPT ![fi] = "ok"]
            /\ NextFile
    /\ UNCHANGED <<args, consumed, vlqVars>>

Next == Convert \/ BeginTrack \/ WalkStep \/ EndTrack \/ Export

(***************************************************************************)
(* Input files.                                                            *)
(***************************************************************************)
LE16(n) == <<n % 256, (n \div 256) % 256>>

Header(magic, audiogear_id, bpm, width, height) ==
    magic \o <<1, audiogear_id>> \o LE16(bpm) \o LE16(width) \o LE16(height)

\* a file of plain cells: cells[k] is the symbol at row (k-1) \div width
GridFile(bpm, width, height, cells) ==
    Header(MAGIC, 200, bpm, width, height) \o [k \in 1..(width * height) |-> cells[k]]

\* Repeat marker layouts, marks[k] being 3 (RepeatBegin), 4 (RepeatEnd) or 0:
\* at most MaxMarks markers anywhere in the grid, and the grids whose every
\* row holds at most one RepeatEnd with at most one RepeatBegin before it.
MarkerLayouts(width, height) ==
    UNION {{[k \in 1..(width * height) |-> IF k \in S THEN f[k] ELSE 0] : f \in [S -> {3, 4}]} :
           S \in {T \in SUBSET (1..(width * height)) : Cardinality(T) <= MaxMarks}}

PairRows(width) ==
    {[c \in 1..width |-> 0]}
    \cup {[c \in 1..width |-> IF c = e THEN 4 ELSE 0] : e \in 1..width}
    \cup {[c \in 1..width |-> IF c = p[2] THEN 4 ELSE IF c = p[1] THEN 3 ELSE 0] :
              p \in {q \in (1..width) \X (1..width) : q[1] < q[2]}}

PairLayouts(width, height) ==
    {[k \in 1..(width * height) |-> rows[((k - 1) \div width) + 1][((k - 1) % width) + 1]] :
         rows \in [1..height -> PairRows(width)]}

\* the free cells of row 0 hold a note of channel 0 and, with fill = 2, the
\* free cells of the last row a drum hit
RepeatGrid(width, height, marks, fill) ==
    [k \in 1..(width * height) |->
        IF marks[k] # 0 THEN marks[k]
        ELSE IF (k - 1) \div width = 0 THEN 1
        ELSE IF (k - 1) \div width = height - 1 /\ fill = 2 THEN 7
        ELSE 0]

InitGrids(fills) ==
    /\ \E w \in 1..MaxWidth, h \in 1..MaxHeight :
          \E m \in MarkerLayouts(w, h) \cup PairLayouts(w, h), fill \in fills :
             args = <<GridFile(120, w, h, RepeatGrid(w, h, m, fill))>>
    /\ InitRest

InitRepeat == InitGrids({1, 2})

InitRepeatOne == InitGrids({1})

SpecRepeat == InitRepeat /\ [][Next]_vars

\* the process is never suspended: a step that can be taken is taken
FairSpecRepeat == InitRepeatOne /\ [][Next]_vars /\ WF_vars(Next)

(***************************************************************************)
(* The driver over lists of files: complete grids, a chord, an audiogear   *)
(* cell, a grid of every kind of channel, a wrong magic, files cut short   *)
(* in the magic, in the header, in the grid and in an audiogear block, and *)
(* a tempo of 0.                                                           *)
(***************************************************************************)
Prefix(bytes, n) == SubSeq(bytes, 1, n)

NoteFirst == GridFile(120, 2, 1, <<1, 0>>)

NoteLast == GridFile(120, 1, 1, <<1>>)

Chord == GridFile(120, 1, 2, <<1, 1>>)

Gear == Header(MAGIC, 200, 120, 1, 1) \o <<200, 1, 0, 1, 2, 0, 0, 7, 3, 0, 0, 99>>

EveryChannel == GridFile(120, 1, 4, <<1, 5, 6, 7>>)

WrongMagic == Header(<<88, 88, 88, 88>>, 200, 120, 2, 1) \o <<1, 0>>

TempoZero == GridFile(0, 2, 1, <<1, 0>>)

DriverFiles ==
    {NoteFirst, NoteLast, Chord, Gear, EveryChannel, WrongMagic, TempoZero,
     Prefix(NoteFirst, 2), Prefix(NoteFirst, 10), Prefix(NoteFirst, 12),
     Prefix(NoteFirst, 13), Prefix(Gear, 16)}

Init ==
    /\ \E n \in 1..MaxFiles : args \in [1..n -> DriverFiles]
    /\ InitRest

Spec == Init /\ [][Next]_vars

(***************************************************************************)
(* Reading the inputs and outputs back, for the properties below.          *)
(***************************************************************************)
Count(seq, v) == Cardinality({i \in 1..Len(seq) : seq[i] = v})

\* a grid of plain cells: its width, height and the symbol at (row, col)
GridWidth(file) == file[9] + 256 * file[10]

GridHeight(file) == file[11] + 256 * file[12]

IsPlainGrid(file) ==
    /\ Len(file) >= 12
    /\ SubSeq(file, 1, 4) = MAGIC
    /\ Len(file) = 12 + GridWidth(file) * GridHeight(file)
    /\ \A k \in 13..Len(file) : file[k] # file[6]

GridCell(file, row, col) == file[12 + row * GridWidth(file) + col + 1]

\* the RepeatEnd cells, and the start column the format gives each: the
\* nearest RepeatBegin before it in its row, or 0
RepeatEndCells(file) ==
    {rc \in (0..(GridHeight(file) - 1)) \X (0..(GridWidth(file) - 1)) :
        GridCell(file, rc[1], rc[2]) = 4}

StartColumn(file, rc) ==
    LET begins == {b \in 0..(rc[2] - 1) : GridCell(file, rc[1], b) = 3}
    IN  IF begins = {} THEN 0 ELSE CHOOSE b \in begins : \A o \in begins : o <= b

\* the bytes of a value of the variable-length encoding
RECURSIVE VlqDecode(_, _, _)
VlqDecode(bytes, i, acc) ==
    IF i > Len(bytes) THEN acc ELSE VlqDecode(bytes, i + 1, acc * 128 + (bytes[i] % 128))

RECURSIVE Base128Digits(_)
Base128Digits(v) == IF v < 128 THEN 1 ELSE 1 + Base128Digits(v \div 128)

\* a Standard MIDI File: the track count of MThd, the MTrk chunks, and the
\* events of a chunk with the tick each falls on
MidiTrackCount(file) == file[11] * 256 + file[12]

RECURSIVE MidiChunks(_, _)
MidiChunks(file, i) ==
    IF i + 7 > Len(file) THEN <<>>
    ELSE LET n == ((file[i + 4] * 256 + file[i + 5]) * 256 + file[i + 6]) * 256 + file[i + 7]
         IN  <<SubSeq(file, i + 8, Min(i + 7 + n, Len(file)))>> \o MidiChunks(file, i + 8 + n)

RECURSIVE VlqAt(_, _, _)
VlqAt(bytes, i, acc) ==
    IF i > Len(bytes) THEN [value |-> acc, next |-> i]
    ELSE IF bytes[i] >= 128 THEN VlqAt(bytes, i + 1, acc * 128 + (bytes[i] % 128))
    ELSE [value |-> acc * 128 + bytes[i], next |-> i + 1]

RECURSIVE MidiEvents(_, _, _)
MidiEvents(bytes, i, tick) ==
    IF i > Len(bytes) THEN <<>>
    ELSE LET d == VlqAt(bytes, i, 0)
             j == d.next
         IN  IF j + 1 > Len(bytes) THEN <<>>
             ELSE LET n == IF bytes[j] = 255
                           THEN (IF j + 2 > Len(bytes) THEN 2 ELSE 2 + bytes[j + 2])
                           ELSE IF bytes[j] \div 16 \in {12, 13} THEN 1 ELSE 2
                  IN  <<[tick |-> tick + d.value, status |-> bytes[j],
                         data |-> SubSeq(bytes, j + 1, Min(j + n, Len(bytes)))]>>
                        \o MidiEvents(bytes, j + n + 1, tick + d.value)

TrackEvents(chunk) == MidiEvents(chunk, 1, 0)

IsVoice(e) == e.status >= 128 /\ e.status < 240

\* the channel chunks of an output file: all but the tempo track
ChannelChunks(file) ==
    LET all == MidiChunks(file, 15)
    IN  IF all = <<>> THEN <<>> ELSE Tail(all)

Processed(i) == results[i] # "none"

(***************************************************************************)
(* C1.  When n rows hold a RepeatEnd at one column c, all with the start   *)
(* column s, and the grid has no other RepeatEnd, the resolved table has   *)
(* one action at c, with start s and max_use n, and none elsewhere; a walk *)
(* has visited each of the columns s..c exactly n + 1 times when it is     *)
(* past c, and never more.                                                 *)
(***************************************************************************)
UniformEnds(file) ==
    /\ IsPlainGrid(file)
    /\ RepeatEndCells(file) # {}
    /\ \A a, b \in RepeatEndCells(file) :
           a[2] = b[2] /\ StartColumn(file, a) = StartColumn(file, b)

EndColumn(file) == (CHOOSE rc \in RepeatEndCells(file) : TRUE)[2]

EndStart(file) == StartColumn(file, CHOOSE rc \in RepeatEndCells(file) : TRUE)

EndCount(file) == Cardinality(RepeatEndCells(file))

C1_StackedRepeatEnds ==
    (pc \in {"track", "walk"} /\ UniformEnds(args[fi])) =>
        LET c == EndColumn(args[fi])
            s == EndStart(args[fi])
            n == EndCount(args[fi])
        IN  /\ \A col \in 0..(read_width - 1) :
                   IF col = c
                   THEN /\ Len(repeat_ends[col + 1]) = 1
                        /\ repeat_ends[col + 1][1].start_pos = s
                        /\ repeat_ends[col + 1][1].max_use = n
                   ELSE repeat_ends[col + 1] = <<>>
            /\ pc = "walk" =>
                   \A k \in s..c : /\ Count(visits, k) <= n + 1
                                   /\ x > c => Count(visits, k) = n + 1
            /\ \A w \in 1..Len(walks) : \A k \in s..c : Count(walks[w], k) = n + 1

C1_Witness ==
    /\ pc = "walk"
    /\ UniformEnds(args[fi])
    /\ EndCount(args[fi]) = 2
    /\ EndStart(args[fi]) = 0
    /\ EndColumn(args[fi]) >= 1
    /\ x = EndColumn(args[fi]) + 1
    /\ Count(visits, 0) = 3

(***************************************************************************)
(* C2.  Two conversions of the same bytes write the same bytes.            *)
(***************************************************************************)
C2_SameInputSameOutput ==
    \A i, j \in 1..Len(args) :
        (args[i] = args[j] /\ results[i] = "ok" /\ results[j] = "ok")
            => outfiles[i] = outfiles[j]

(***************************************************************************)
(* C3.  A file that ends before a byte the format requires is an error,    *)
(* and no output file is created for it.                                   *)
(***************************************************************************)
\* the position after n cells from pos, or -1 when the bytes run out
RECURSIVE CellsEnd(_, _, _)
CellsEnd(bytes, pos, n) ==
    IF n = 0 THEN pos
    ELSE IF pos + 1 > Len(bytes) THEN -1
    ELSE IF bytes[pos + 1] # 0 /\ bytes[pos + 1] = bytes[6]
    THEN (IF pos + 12 > Len(bytes) THEN -1 ELSE CellsEnd(bytes, pos + 12, n - 1))
    ELSE CellsEnd(bytes, pos + 1, n - 1)

EndsEarly(bytes) ==
    \/ Len(bytes) < 12
    \/ /\ SubSeq(bytes, 1, 4) = MAGIC
       /\ CellsEnd(bytes, 12, GridWidth(bytes) * GridHeight(bytes)) = -1

C3_ShortReadIsError ==
    \A i \in 1..Len(args) :
        (EndsEarly(args[i]) /\ Processed(i))
            => /\ results[i] = "err"
               /\ outfiles[i] = <<>>
               /\ fi > i

(***************************************************************************)
(* C4.  A file whose first four bytes are not the magic is an error found  *)
(* before the grid is read (no byte past the magic is consumed) and before *)
(* the output file is created; main goes on with the next file, and the    *)
(* process does not end on that file.                                      *)
(***************************************************************************)
HasWrongMagic(bytes) == Len(bytes) < 4 \/ SubSeq(bytes, 1, 4) # MAGIC

C4_WrongMagicIsSkipped ==
    \A i \in 1..Len(args) :
        HasWrongMagic(args[i]) =>
            /\ results[i] \in {"none", "err"}
            /\ outfiles[i] = <<>>
            /\ consumed[i] <= 4
            /\ fi = i => pc = "convert"
            /\ Processed(i) => fi > i
            /\ (Processed(i) /\ pc = "exit") => \A j \in (i + 1)..Len(args) : Processed(j)

C4_Witness ==
    \E i \in 1..Len(args) :
        /\ i < Len(args)
        /\ HasWrongMagic(args[i])
        /\ results[i] = "err"
        /\ results[i + 1] = "ok"
        /\ outfiles[i + 1] # <<>>

(***************************************************************************)
(* C5.  In every output file there is a chunk for a channel of the         *)
(* piano-roll exactly when the channel has a TrackInfo and is at most 15;  *)
(* the track count of MThd is 1 plus the number of channel chunks; every   *)
(* channel-voice status byte of a chunk carries the chunk's channel.       *)
(***************************************************************************)
PianoRollChannels(bytes) == DOMAIN DecodeFile(bytes).song

ChunkChannel(chunk) ==
    LET pcs == {e \in {TrackEvents(chunk)[k] : k \in 1..Len(TrackEvents(chunk))} :
                   e.status \div 16 = 12}
    IN  {e.status % 16 : e \in pcs}

C5_ChannelFilter ==
    \A i \in 1..Len(args) :
        outfiles[i] # <<>> =>
            LET file == outfiles[i][1]
                chunks == ChannelChunks(file)
            IN  /\ \A ch \in PianoRollChannels(args[i]) :
                       (\E k \in 1..Len(chunks) : ch \in ChunkChannel(chunks[k]))
                           <=> (ch \in DOMAIN midi_track_map /\ ch <= 15)
                /\ Len(file) >= 14
                /\ MidiTrackCount(file) = 1 + Len(chunks)
                /\ \A k \in 1..Len(chunks) :
                       \A e \in {TrackEvents(chunks[k])[m] :
                                    m \in 1..Len(TrackEvents(chunks[k]))} :
                           IsVoice(e) => ChunkChannel(chunks[k]) = {e.status % 16}

(***************************************************************************)
(* C6.  A grid of height 1 with one Note of channel 0 at column c and      *)
(* nothing else: the channel's track has one NoteOn and one NoteOff, both  *)
(* of pitch 71, the NoteOn at tick 24 * c, the NoteOff after it at tick    *)
(* 24 * (c + 1), before EndOfTrack.                                        *)
(***************************************************************************)
IsSingleNote(file) ==
    /\ IsPlainGrid(file)
    /\ file[7] + 256 * file[8] \in 1..32767
    /\ GridHeight(file) = 1
    /\ \E c \in 0..(GridWidth(file) - 1) :
           \A o \in 0..(GridWidth(file) - 1) :
               GridCell(file, 0, o) = (IF o = c THEN 1 ELSE 0)

NoteColumn(file) == CHOOSE c \in 0..(GridWidth(file) - 1) : GridCell(file, 0, c) = 1

C6_SingleNotePair ==
    \A i \in 1..Len(args) :
        (IsSingleNote(args[i]) /\ Processed(i)) =>
            /\ outfiles[i] # <<>>
            /\ Len(ChannelChunks(outfiles[i][1])) = 1
            /\ LET ev == TrackEvents(ChannelChunks(outfiles[i][1])[1])
                   c == NoteColumn(args[i])
                   ons == {k \in 1..Len(ev) : ev[k].status = 144}
                   offs == {k \in 1..Len(ev) : ev[k].status = 128}
               IN  /\ Cardinality(ons) = 1
                   /\ Cardinality(offs) = 1
                   /\ \A k \in ons : ev[k].data[1] = 71 /\ ev[k].tick = 24 * c
                   /\ \A k \in offs : ev[k].data[1] = 71 /\ ev[k].tick = 24 * (c + 1)
                   /\ \A k \in ons : \A m \in offs : k < m /\ m < Len(ev)
                   /\ ev[Len(ev)].status = 255 /\ ev[Len(ev)].data[1] = 47

(***************************************************************************)
(* C7.  var_len_from(v) is the variable-length quantity of v: as many      *)
(* bytes as v has base-128 digits (1 to 4), bit 7 set on all but the last, *)
(* and the digits read back most significant first give v; 0 is <<0>>.     *)
(***************************************************************************)
C7_VlqRoundTrip ==
    vlq_out # <<>> =>
        /\ Len(vlq_out) \in 1..4
        /\ Len(vlq_out) = Base128Digits(vlq_in)
        /\ \A k \in 1..(Len(vlq_out) - 1) : vlq_out[k] >= 128
        /\ vlq_out[Len(vlq_out)] < 128
        /\ VlqDecode(vlq_out, 1, 0) = vlq_in
        /\ vlq_in = 0 => vlq_out = <<0>>

C7_Witness == vlq_in = 268435455 /\ vlq_out = <<255, 255, 255, 127>>

(***************************************************************************)
(* C8.  Every walk ends: from any point of the while loop the walk reaches *)
(* a column at or past the width.                                          *)
(***************************************************************************)
C8_WalkTerminates == (pc = "walk") ~> (pc = "walk" /\ ~(x < read_width))

\* a walk has ended after a column with two actions of different starts
\* sent it back
C8_Witness ==
    /\ pc = "walk"
    /\ ~(x < read_width)
    /\ Len(visits) > read_width
    /\ \E col \in 1..read_width : Len(repeat_ends[col]) >= 2

(***************************************************************************)
(* C9.  A file whose tempo is 0 is converted or is an error of that file:  *)
(* the process goes on, and the file it leaves, if any, is complete.       *)
(***************************************************************************)
HasTempoZero(bytes) ==
    /\ Len(bytes) >= 12
    /\ SubSeq(bytes, 1, 4) = MAGIC
    /\ ~EndsEarly(bytes)
    /\ bytes[7] = 0 /\ bytes[8] = 0

IsCompleteMidi(file) ==
    /\ Len(file) >= 14
    /\ MidiTrackCount(file) = Len(MidiChunks(file, 15))

C9_TempoZeroGuarded ==
    \A i \in 1..Len(args) :
        (HasTempoZero(args[i]) /\ Processed(i)) =>
            /\ results[i] \in {"ok", "err"}
            /\ fi > i
            /\ outfiles[i] # <<>> => IsCompleteMidi(outfiles[i][1])

(***************************************************************************)
(* C10.  Between tracks, and whenever a walk has reached the width, every  *)
(* use_counter of the shared table is 0, and the walks of all the tracks   *)
(* of a file visit the same columns in the same order.                     *)
(***************************************************************************)
CountersAtZero ==
    \A col \in 1..Len(repeat_ends) :
        \A a \in 1..Len(repeat_ends[col]) : repeat_ends[col][a].use_counter = 0

C10_TableRestored ==
    /\ pc = "track" => CountersAtZero
    /\ (pc = "walk" /\ ~(x < read_width)) => CountersAtZero
    /\ \A i, j \in 1..Len(walks) : walks[i] = walks[j]

C10_Witness ==
    /\ pc = "track"
    /\ Len(walks) = 2
    /\ Len(walks[1]) > read_width
    /\ \E col \in 1..read_width : Len(repeat_ends[col]) >= 2

====
